---- MODULE Spec2Model ----
(***************************************************************************)
(* Model of the chat backend: the entitlement ledger (checkMessageLimit,   *)
(* decrementMessageCount, verifyPayment), the /chat request pipeline and   *)
(* the audio session store of AudioManager.                                *)
(*                                                                         *)
(* Every awaited call of the JavaScript source is one step: the step is    *)
(* the completion of the awaited operation followed by the synchronous     *)
(* code up to the next await.  A store, file or external call either       *)
(* succeeds with its effect or fails without effect.                       *)
(* Time is counted in hours of local time; text is a sequence of           *)
(* one-character strings.                                                  *)
(*                                                                         *)
(* user_plans holds one row per user_id: the source reads it with          *)
(* single() and writes it with upsert(), so an insert for a user that has  *)
(* a row fails.  payments is a plain list of rows: the source guards the   *)
(* transaction_id by a select before its insert and by nothing else.       *)
(*                                                                         *)
(* History kept next to the program state, for stating properties only:    *)
(* verified; lastCheck; in vp the fields late (the call began after a      *)
(* success for its code) and wrote (the tables the call has written); in   *)
(* chat the fields generated (the segments as generated), failed (the      *)
(* segments whose processing threw), calls (the external calls the request *)
(* has made), ioFailed (a persistence operation of checkMessageLimit       *)
(* failed) and again (the check returned on the day of the previous check  *)
(* of its user); in expire and cleanup the fields failed, started and the  *)
(* tables as the select of the run saw them.                               *)
(***************************************************************************)
EXTENDS Integers, Sequences, FiniteSets, TLC

VARIABLES
    now,        \* the wall clock, in hours
    ticks,      \* how often the clock has advanced
    plans,      \* table user_plans: user_id -> row
    payments,   \* table payments: the rows, in insertion order
    sessions,   \* table user_audio_sessions: session_id -> row
    userDirs,   \* the user directories that exist under audios/users
    files,      \* the session files <<user, session, index, extension>>
    nextSid,    \* the next fresh session identifier
    keysOk,     \* both API keys are configured
    vp,         \* the verifyPayment calls in flight, per caller
    chat,       \* the /chat requests in flight, per connection
    verified,   \* the codes for which some verifyPayment has returned success
    expire,     \* the run of expireOldPlans, if one is in progress
    cleanup,    \* the run of cleanupOldFiles, if one is in progress
    lastCheck   \* per user, what the last checkMessageLimit returned and left

vars == <<now, ticks, plans, payments, sessions, userDirs, files, nextSid,
          keysOk, vp, chat, verified, expire, cleanup, lastCheck>>

storeVars == <<plans, payments, sessions, userDirs, files, nextSid>>

sweepVars == <<expire, cleanup>>

----------------------------------------------------------------------------
(* Bounds of the model *)

MaxTicks == 1

MaxVerifyCalls == 2

MaxChatCalls == 2

MaxSegments == 2

MaxSweeps == 1

Users == {"u1", "u2"}

VProcs == {"v1", "v2"}

CProcs == {"c1", "c2"}

HoursPerDay == 24

TickSteps == {HoursPerDay \div 2, 30 * HoursPerDay}

StartHour == HoursPerDay

----------------------------------------------------------------------------
(* Text: String.prototype.toLowerCase and String.prototype.trim *)

UpperChars == <<"A","B","C","D","E","F","G","H","I","J","K","L","M",
                "N","O","P","Q","R","S","T","U","V","W","X","Y","Z">>

LowerChars == <<"a","b","c","d","e","f","g","h","i","j","k","l","m",
                "n","o","p","q","r","s","t","u","v","w","x","y","z">>

WhiteSpace == {" ", "\t", "\n"}

LowerChar(c) ==
    IF \E i \in DOMAIN UpperChars : UpperChars[i] = c
    THEN LowerChars[CHOOSE i \in DOMAIN UpperChars : UpperChars[i] = c]
    ELSE c

toLowerCase(s) == [i \in DOMAIN s |-> LowerChar(s[i])]

RECURSIVE trimStart(_)
trimStart(s) ==
    IF s # <<>> /\ Head(s) \in WhiteSpace THEN trimStart(Tail(s)) ELSE s

RECURSIVE trimEnd(_)
trimEnd(s) ==
    IF s # <<>> /\ s[Len(s)] \in WhiteSpace
    THEN trimEnd(SubSeq(s, 1, Len(s) - 1))
    ELSE s

trim(s) == trimEnd(trimStart(s))

----------------------------------------------------------------------------
(* The plans *)

PlanTypes == {"free", "pro", "pro_plus", "premium"}

PLAN_TRANSACTION_IDS ==
    [pro |-> {
        <<"f","q","8","2","l","w","7","r","m","0","4","b","z","j","n">>,
        <<"y","p","6","3","v","d","9","g","t","5","8","x","s","a","r">>,
        <<"j","m","4","0","c","q","1","h","e","7","9","p","w","l","o">>,
        <<"v","x","9","1","b","k","4","z","n","2","3","d","f","m","t">>,
        <<"u","r","2","6","p","s","5","c","w","8","0","y","g","x","h">>},
     pro_plus |-> {
        <<"n","b","7","7","t","w","0","j","l","4","2","v","r","e","a">>,
        <<"k","o","5","4","m","f","8","y","e","3","1","q","z","c","d">>,
        <<"e","d","0","9","r","h","6","s","n","7","5","v","x","l","p">>,
        <<"c","z","8","5","j","g","2","v","m","6","1","t","u","q","w">>,
        <<"h","s","2","7","n","w","4","f","x","0","9","k","l","d","b">>},
     premium |-> {
        <<"q","a","6","3","v","m","1","p","r","8","4","j","z","o","x">>,
        <<"l","y","4","8","t","f","7","b","w","5","2","d","s","h","k">>,
        <<"g","x","2","0","r","k","5","c","q","3","7","v","n","l","u">>,
        <<"p","w","3","9","c","l","6","j","d","8","1","x","z","t","a">>,
        <<"v","b","1","6","s","y","0","m","e","4","9","q","h","k","n">>}]

(* The daily allocation of a plan; an unknown plan has none (undefined). *)
NoAllocation == 0 - 1

messagesAllocation(planType) ==
    CASE planType = "free" -> 1
      [] planType = "pro" -> 6
      [] planType = "pro_plus" -> 20
      [] planType = "premium" -> 50
      [] OTHER -> NoAllocation

planAmounts(planType) ==
    CASE planType = "pro" -> 2500
      [] planType = "pro_plus" -> 5000
      [] planType = "premium" -> 15000
      [] OTHER -> 0

ThirtyDays == 30 * HoursPerDay

NoDate == 0 - 1

Day(t) == t \div HoursPerDay

(* The value of "plan" where no row of user_plans has been read. *)
NoRow ==
    [plan_type |-> "free", messages_remaining |-> 0,
     last_reset_date |-> NoDate, expires_at |-> NoDate]

----------------------------------------------------------------------------
(* Inputs of verifyPayment *)

RequestedPlans == PlanTypes

TransactionInputs == {
    <<"f","q","8","2","l","w","7","r","m","0","4","b","z","j","n">>,
    <<" "," ","F","Q","8","2","L","W","7","R","M","0","4","B","Z","J","N"," ">>,
    <<"N","b","7","7","t","W","0","j","L","4","2","v","R","e","A","\t">>,
    <<"q","a","6","3","v","m","1","p","r","8","4","j","z","o","x">>,
    <<"f","q","8","2","l","w","7"," ","r","m","0","4","b","z","j","n">> }

(* The entitlement rows a user can have before a call *)
InitialPlanRows == {
    [plan_type |-> "free", messages_remaining |-> 1,
     last_reset_date |-> StartHour, expires_at |-> NoDate],
    [plan_type |-> "pro", messages_remaining |-> 2,
     last_reset_date |-> 0, expires_at |-> ThirtyDays],
    [plan_type |-> "premium", messages_remaining |-> 37,
     last_reset_date |-> StartHour, expires_at |-> 12 + ThirtyDays] }

InitialPlans ==
    {<<>>} \cup { [u \in {"u1"} |-> row] : row \in InitialPlanRows }

----------------------------------------------------------------------------
(* verifyPayment *)

NoText == <<>>

VpIdle ==
    [pc |-> "idle", userId |-> "u1", transactionId |-> NoText,
     planType |-> "free", cleanTransactionId |-> NoText,
     success |-> FALSE, error |-> "", late |-> FALSE, wrote |-> {}, n |-> 0]

cleanTransactionId(transactionId) == trim(toLowerCase(transactionId))

IsAnyPlanTransaction(planType, clean) ==
    \E p \in DOMAIN PLAN_TRANSACTION_IDS : clean \in PLAN_TRANSACTION_IDS[p]

IsPlanTransaction(planType, clean) ==
    /\ planType \in DOMAIN PLAN_TRANSACTION_IDS
    /\ clean \in PLAN_TRANSACTION_IDS[planType]

existingPayment(clean) ==
    { i \in DOMAIN payments : payments[i].transaction_id = clean }

PaymentRow(userId, planType, clean) ==
    [user_id |-> userId, plan_type |-> planType, transaction_id |-> clean,
     used_at |-> now, amount |-> planAmounts(planType), status |-> "null"]

PlanRowNoExpiry(planType) ==
    [plan_type |-> planType,
     messages_remaining |-> messagesAllocation(planType),
     last_reset_date |-> now,
     expires_at |-> IF planType = "free" THEN now + ThirtyDays ELSE NoDate]

PlanRow(planType) ==
    [plan_type |-> planType,
     messages_remaining |-> messagesAllocation(planType),
     last_reset_date |-> now,
     expires_at |-> IF planType # "free" THEN now + ThirtyDays ELSE NoDate]

Upsert(table, key, row) ==
    [k \in DOMAIN table \cup {key} |-> IF k = key THEN row ELSE table[k]]

RECURSIVE SumN(_, _)
SumN(f, S) ==
    IF S = {} THEN 0
    ELSE LET x == CHOOSE y \in S : TRUE IN f[x].n + SumN(f, S \ {x})

VerifyCalls == SumN(vp, VProcs)

VpFailed(v, msg) ==
    vp' = [vp EXCEPT ![v].pc = "done", ![v].success = FALSE, ![v].error = msg]

VpCall(v, u, transactionId, planType) ==
    /\ vp[v].pc = "idle"
    /\ VerifyCalls < MaxVerifyCalls
    /\ LET clean == cleanTransactionId(transactionId)
           call == [vp[v] EXCEPT !.userId = u,
                                 !.transactionId = transactionId,
                                 !.planType = planType,
                                 !.cleanTransactionId = clean,
                                 !.late = (clean \in verified),
                                 !.wrote = {},
                                 !.n = @ + 1]
       IN  IF ~IsPlanTransaction(planType, clean)
           THEN vp' = [vp EXCEPT ![v] =
                    [call EXCEPT !.pc = "done", !.success = FALSE,
                                 !.error = "Invalid transaction ID"]]
           ELSE vp' = [vp EXCEPT ![v] = [call EXCEPT !.pc = "check"]]
    /\ UNCHANGED <<now, ticks, storeVars,
                   keysOk, sweepVars, lastCheck, chat, verified>>

VpCheckRaw(v, ok) ==
    /\ vp[v].pc = "check"
    /\ LET rows == existingPayment(vp[v].transactionId)
       IN  IF ~ok \/ Cardinality(rows) > 1
           THEN VpFailed(v, "Payment processing failed")
           ELSE IF rows # {}
           THEN VpFailed(v, "This payment ID has already been used")
           ELSE vp' = [vp EXCEPT ![v].pc = "plan"]
    /\ UNCHANGED <<now, ticks, storeVars,
                   keysOk, sweepVars, lastCheck, chat, verified>>

VpCheck(v, ok) ==
    /\ vp[v].pc = "check"
    /\ LET rows == existingPayment(vp[v].cleanTransactionId)
       IN  IF ~ok \/ Cardinality(rows) > 1
           THEN VpFailed(v, "Payment processing failed")
           ELSE IF rows # {}
           THEN VpFailed(v, "This payment ID has already been used")
           ELSE vp' = [vp EXCEPT ![v].pc = "plan"]
    /\ UNCHANGED <<now, ticks, storeVars,
                   keysOk, sweepVars, lastCheck, chat, verified>>

VpReadPlan(v, ok) ==
    /\ vp[v].pc = "plan"
    /\ IF ~ok
       THEN VpFailed(v, "Payment processing failed")
       ELSE vp' = [vp EXCEPT ![v].pc = "insert"]
    /\ UNCHANGED <<now, ticks, storeVars,
                   keysOk, sweepVars, lastCheck, chat, verified>>

VpInsert(v, ok) ==
    /\ vp[v].pc = "insert"
    /\ IF ~ok
       THEN /\ VpFailed(v, "Payment processing failed")
            /\ UNCHANGED payments
       ELSE /\ payments' = Append(payments,
                    PaymentRow(vp[v].userId, vp[v].planType,
                               vp[v].cleanTransactionId))
            /\ vp' = [vp EXCEPT ![v].pc = "upsert",
                                ![v].wrote = @ \cup {"payment"}]
    /\ UNCHANGED <<now, ticks, plans, sessions, userDirs, files, nextSid,
                   keysOk, sweepVars, lastCheck, chat, verified>>

VpUpsert(v, ok) ==
    /\ vp[v].pc = "upsert"
    /\ IF ~ok
       THEN /\ VpFailed(v, "Payment processing failed")
            /\ UNCHANGED <<plans, verified, lastCheck>>
       ELSE /\ plans' = Upsert(plans, vp[v].userId, PlanRow(vp[v].planType))
            /\ lastCheck' = [lastCheck EXCEPT ![vp[v].userId].valid = FALSE]
            /\ vp' = [vp EXCEPT ![v].pc = "done", ![v].success = TRUE,
                                ![v].error = "",
                                ![v].wrote = @ \cup {"plan"}]
            /\ verified' = verified \cup {vp[v].cleanTransactionId}
    /\ UNCHANGED <<now, ticks, payments, sessions, userDirs, files, nextSid,
                   keysOk, sweepVars, chat>>

VpReturn(v) ==
    /\ vp[v].pc = "done"
    /\ vp' = [vp EXCEPT ![v] = [VpIdle EXCEPT !.n = vp[v].n]]
    /\ UNCHANGED <<now, ticks, storeVars,
                   keysOk, sweepVars, lastCheck, chat, verified>>

verifyPayment ==
    \E v \in VProcs :
        \/ \E u \in Users, t \in TransactionInputs, p \in RequestedPlans :
                VpCall(v, u, t, p)
        \/ \E ok \in BOOLEAN : VpCheck(v, ok)
        \/ \E ok \in BOOLEAN : VpReadPlan(v, ok)
        \/ \E ok \in BOOLEAN : VpInsert(v, ok)
        \/ \E ok \in BOOLEAN : VpUpsert(v, ok)
        \/ VpReturn(v)

----------------------------------------------------------------------------
(* The /chat request: inputs, values and responses *)

EmptyString == ""

Absent == "<absent>"

ChatUserInputs == Users \cup {EmptyString, Absent}

(* An absent message takes the same branch as the empty string. *)
MessageInputs == {
    <<>>,
    <<" ", "\t">>,
    <<" ", "h", "i", " ">> }

IsString(x) == x # Absent

Undefined == <<>>

NullValue == <<"null">>

NoCount == 0 - 1

NoSession == 0

Segment(k) ==
    [text |-> <<"text", k>>,
     facialExpression |-> IF k % 2 = 1 THEN "smile" ELSE "angry",
     animation |-> IF k % 2 = 1 THEN "Talk0" ELSE "Laughing",
     audio |-> Undefined,
     lipsync |-> Undefined]

GeneratedMessages(n) == [k \in 1..n |-> Segment(k)]

CannedReply ==
    << [text |-> <<"Hey dear... How was your day?">>,
        facialExpression |-> "smile", animation |-> "Talk1",
        audio |-> Undefined, lipsync |-> Undefined],
       [text |-> <<"I missed you so much... Please don't go for so long!">>,
        facialExpression |-> "sad", animation |-> "Crying",
        audio |-> Undefined, lipsync |-> Undefined] >>

UpgradePlans ==
    << [name |-> "Pro", price |-> 2500, messages |-> 6],
       [name |-> "Pro Plus", price |-> 5000, messages |-> 20],
       [name |-> "Premium", price |-> 15000, messages |-> 50] >>

NoResponse ==
    [status |-> 0, error |-> "", details |-> "", upgradeRequired |-> FALSE,
     remaining |-> NoCount, plans |-> <<>>, messages |-> <<>>,
     remainingMessages |-> NoCount]

(* What the reply generation can come back with: the call throws, the      *)
(* content is not JSON, the content is the JSON null, a JSON object that   *)
(* is no list and has no messages member, a list of n segments, or an      *)
(* envelope {messages: list of n segments}.                                *)
GenOutcomes ==
    { [kind |-> k, n |-> 0] : k \in {"throw", "garbage", "null", "object"} }
    \cup { [kind |-> "list", n |-> n] : n \in 0..MaxSegments }
    \cup { [kind |-> "envelope", n |-> n] : n \in 1..MaxSegments }

NoCalls == [gen |-> 0, tts |-> 0, open |-> 0, dec |-> 0, decWrites |-> 0]

ChatIdle ==
    [pc |-> "idle", userId |-> EmptyString, message |-> NoText,
     planType |-> "free", plan |-> NoRow, at |-> 0,
     limitCheck |-> [canSend |-> FALSE, remaining |-> 0, error |-> FALSE],
     ioFailed |-> FALSE, again |-> FALSE,
     messages |-> <<>>, isList |-> FALSE, generated |-> <<>>, failed |-> {},
     i |-> 0, newSessionId |-> NoSession, sessionId |-> NoSession,
     data |-> 0, error |-> "", response |-> NoResponse,
     calls |-> NoCalls, n |-> 0]

ChatCalls == SumN(chat, CProcs)

Respond(c, local, resp) ==
    chat' = [chat EXCEPT ![c] = [local EXCEPT !.pc = "done", !.response = resp]]

Failure(msg) ==
    [NoResponse EXCEPT
        !.status = 500,
        !.error = "An error occurred while processing your request",
        !.details = msg]

(* The catch block of the handler: with a session, mark it failed first. *)
Throw(c, local, msg) ==
    IF local.sessionId # NoSession
    THEN chat' = [chat EXCEPT ![c] =
                    [local EXCEPT !.pc = "fail_update", !.error = msg]]
    ELSE Respond(c, [local EXCEPT !.error = msg], Failure(msg))

----------------------------------------------------------------------------
(* app.post("/chat"): from the request to the quota gate *)

ChatReceive(c, userId, message) ==
    /\ chat[c].pc = "idle"
    /\ ChatCalls < MaxChatCalls
    /\ LET local == [chat[c] EXCEPT !.userId = userId, !.message = message,
                                    !.n = @ + 1]
       IN  IF ~IsString(userId)
           THEN Throw(c, local, "The path argument must be of type string")
           ELSE chat' = [chat EXCEPT ![c] = [local EXCEPT !.pc = "access"]]
    /\ UNCHANGED <<now, ticks, storeVars,
                   keysOk, sweepVars, lastCheck, vp, verified>>

ChatAccess(c, ok) ==
    /\ chat[c].pc = "access"
    /\ userDirs' = IF chat[c].userId # EmptyString /\ ok
                   THEN userDirs \cup {chat[c].userId}
                   ELSE userDirs
    /\ IF chat[c].userId = EmptyString
       THEN Respond(c, chat[c], [NoResponse EXCEPT !.status = 400,
                                    !.error = "User ID is required"])
       ELSE chat' = [chat EXCEPT ![c].pc = "cml_select"]
    /\ UNCHANGED <<now, ticks, plans, payments, sessions, files, nextSid,
                   keysOk, sweepVars, lastCheck, vp, verified>>

AfterGateEmptyFirst(c, local, limitCheck) ==
    LET gated == [local EXCEPT !.limitCheck = limitCheck]
    IN  IF trim(gated.message) = NoText
        THEN Respond(c, gated,
                [NoResponse EXCEPT !.status = 200, !.messages = CannedReply])
        ELSE IF ~limitCheck.canSend
        THEN Respond(c, gated,
                [NoResponse EXCEPT !.status = 429,
                                   !.error = "Message limit reached",
                                   !.upgradeRequired = TRUE,
                                   !.remaining = limitCheck.remaining,
                                   !.plans = UpgradePlans])
        ELSE IF ~keysOk
        THEN Respond(c, gated,
                [NoResponse EXCEPT !.status = 500,
                                   !.error = "API configuration error"])
        ELSE chat' = [chat EXCEPT ![c] =
                [gated EXCEPT !.pc = "generate", !.calls.gen = @ + 1]]

AfterGateNoTrim(c, local, limitCheck) ==
    LET gated == [local EXCEPT !.limitCheck = limitCheck]
    IN  IF ~limitCheck.canSend
        THEN Respond(c, gated,
                [NoResponse EXCEPT !.status = 429,
                                   !.error = "Message limit reached",
                                   !.upgradeRequired = TRUE,
                                   !.remaining = limitCheck.remaining,
                                   !.plans = UpgradePlans])
        ELSE IF gated.message = NoText
        THEN Respond(c, gated,
                [NoResponse EXCEPT !.status = 200, !.messages = CannedReply])
        ELSE IF ~keysOk
        THEN Respond(c, gated,
                [NoResponse EXCEPT !.status = 500,
                                   !.error = "API configuration error"])
        ELSE chat' = [chat EXCEPT ![c] =
                [gated EXCEPT !.pc = "generate", !.calls.gen = @ + 1]]

(* The handler from the result of checkMessageLimit to its next await. *)
AfterGate(c, local, limitCheck) ==
    LET gated == [local EXCEPT !.limitCheck = limitCheck]
    IN  IF ~limitCheck.canSend
        THEN Respond(c, gated,
                [NoResponse EXCEPT !.status = 429,
                                   !.error = "Message limit reached",
                                   !.upgradeRequired = TRUE,
                                   !.remaining = limitCheck.remaining,
                                   !.plans = UpgradePlans])
        ELSE IF trim(gated.message) = NoText
        THEN Respond(c, gated,
                [NoResponse EXCEPT !.status = 200, !.messages = CannedReply])
        ELSE IF ~keysOk
        THEN Respond(c, gated,
                [NoResponse EXCEPT !.status = 500,
                                   !.error = "API configuration error"])
        ELSE chat' = [chat EXCEPT ![c] =
                [gated EXCEPT !.pc = "generate", !.calls.gen = @ + 1]]

DailyAllocation(planType) ==
    IF messagesAllocation(planType) = NoAllocation
    THEN 1
    ELSE messagesAllocation(planType)

NoCheck ==
    [valid |-> FALSE, day |-> 0, remaining |-> 0, row |-> NoRow,
     how |-> "read"]

(* The last check of user u is on record, and it was made on the day of at. *)
SameDayCheck(u, at) == lastCheck[u].valid /\ lastCheck[u].day = Day(at)

Again(local) ==
    [local EXCEPT !.again = SameDayCheck(local.userId, local.at)]

(* A check of user u returns without error: what it returned and the row   *)
(* it left go on record; how tells what the first check of the day did.    *)
Checked(u, at, remaining, row, how) ==
    lastCheck' = [lastCheck EXCEPT ![u] =
        [valid |-> TRUE, day |-> Day(at), remaining |-> remaining,
         row |-> row,
         how |-> IF SameDayCheck(u, at) THEN lastCheck[u].how ELSE how]]

(* Another operation writes the row of user u. *)
Forget(u) == lastCheck' = [lastCheck EXCEPT ![u].valid = FALSE]

(* The catch block of checkMessageLimit. *)
CheckError == [canSend |-> FALSE, remaining |-> 0, error |-> TRUE]

CmlSelect(c, ok) ==
    /\ chat[c].pc = "cml_select"
    /\ LET u == chat[c].userId
           found == ok /\ u \in DOMAIN plans
           local == [chat[c] EXCEPT !.at = now, !.ioFailed = ~ok]
       IN  IF ~found
           THEN /\ chat' = [chat EXCEPT ![c] =
                        [local EXCEPT !.pc = "cml_insert"]]
                /\ UNCHANGED lastCheck
           ELSE IF Day(now) # Day(plans[u].last_reset_date)
           THEN /\ chat' = [chat EXCEPT ![c] =
                        [local EXCEPT !.pc = "cml_update",
                                      !.plan = plans[u],
                                      !.planType = plans[u].plan_type]]
                /\ UNCHANGED lastCheck
           ELSE /\ AfterGate(c, Again([local EXCEPT !.plan = plans[u]]),
                        [canSend |-> plans[u].messages_remaining > 0,
                         remaining |-> plans[u].messages_remaining,
                         error |-> FALSE])
                /\ Checked(u, now, plans[u].messages_remaining, plans[u],
                           "read")
    /\ UNCHANGED <<now, ticks, storeVars, keysOk, sweepVars, vp, verified>>

NewPlanRowNoDate(at) ==
    [plan_type |-> "free", messages_remaining |-> 1,
     last_reset_date |-> NoDate, expires_at |-> NoDate]

NewPlanRow(at) ==
    [plan_type |-> "free", messages_remaining |-> 1,
     last_reset_date |-> at, expires_at |-> NoDate]

CmlInsert(c, ok) ==
    /\ chat[c].pc = "cml_insert"
    /\ LET u == chat[c].userId
           row == NewPlanRow(chat[c].at)
       IN  IF ok /\ u \notin DOMAIN plans
           THEN /\ plans' = Upsert(plans, u, row)
                /\ AfterGate(c, Again(chat[c]),
                        [canSend |-> TRUE, remaining |-> 1, error |-> FALSE])
                /\ Checked(u, chat[c].at, 1, row, "created")
           ELSE /\ UNCHANGED <<plans, lastCheck>>
                /\ AfterGate(c, [chat[c] EXCEPT !.ioFailed = TRUE],
                             CheckError)
    /\ UNCHANGED <<now, ticks, payments, sessions, userDirs, files, nextSid,
                   keysOk, sweepVars, vp, verified>>

CmlUpdate(c, ok) ==
    /\ chat[c].pc = "cml_update"
    /\ LET u == chat[c].userId
           allocation == DailyAllocation(chat[c].planType)
       IN  IF ok /\ u \in DOMAIN plans
           THEN /\ plans' = [plans EXCEPT
                        ![u].messages_remaining = allocation,
                        ![u].last_reset_date = chat[c].at]
                /\ AfterGate(c, Again(chat[c]),
                        [canSend |-> TRUE, remaining |-> allocation,
                         error |-> FALSE])
                /\ Checked(u, chat[c].at, allocation, plans'[u], "reset")
           ELSE /\ UNCHANGED <<plans, lastCheck>>
                /\ AfterGate(c, [chat[c] EXCEPT !.ioFailed = TRUE],
                             CheckError)
    /\ UNCHANGED <<now, ticks, payments, sessions, userDirs, files, nextSid,
                   keysOk, sweepVars, vp, verified>>

----------------------------------------------------------------------------
(* app.post("/chat"): generation, the audio session and the segments *)

FilePath(userId, sessionId, messageIndex, extension) ==
    <<userId, sessionId, messageIndex, extension>>

(* The loop "for (let i = 0; i < messages.length; i++)": the step to the   *)
(* body of segment i, or past the loop to updateAudioSession.  A value     *)
(* that is no list has no length, and the loop body never runs.            *)
LoopFrom(c, local, i) ==
    IF local.isList /\ i <= Len(local.messages)
    THEN chat' = [chat EXCEPT ![c] =
            [local EXCEPT !.pc = "tts", !.i = i, !.calls.tts = @ + 1]]
    ELSE chat' = [chat EXCEPT ![c] = [local EXCEPT !.pc = "close", !.i = i]]

ChatGenerate(c, outcome) ==
    /\ chat[c].pc = "generate"
    /\ IF outcome.kind = "throw"
       THEN /\ Throw(c, chat[c], "generation failed")
            /\ UNCHANGED nextSid
       ELSE IF outcome.kind \in {"garbage", "null"}
       THEN /\ Throw(c, chat[c], "malformed generation output")
            /\ UNCHANGED nextSid
       ELSE /\ chat' = [chat EXCEPT ![c] =
                [chat[c] EXCEPT
                    !.pc = "ensure_dir",
                    !.messages = GeneratedMessages(outcome.n),
                    !.generated = GeneratedMessages(outcome.n),
                    !.isList = (outcome.kind # "object"),
                    !.newSessionId = nextSid,
                    !.calls.open = @ + 1]]
            /\ nextSid' = nextSid + 1
    /\ UNCHANGED <<now, ticks, plans, payments, sessions, userDirs, files,
                   keysOk, sweepVars, lastCheck, vp, verified>>

ChatEnsureDir(c, ok) ==
    /\ chat[c].pc = "ensure_dir"
    /\ IF chat[c].userId \in userDirs
       THEN /\ chat' = [chat EXCEPT ![c].pc = "insert_session"]
            /\ UNCHANGED userDirs
       ELSE IF ok
       THEN /\ chat' = [chat EXCEPT ![c].pc = "insert_session"]
            /\ userDirs' = userDirs \cup {chat[c].userId}
       ELSE /\ Throw(c, chat[c], "mkdir failed")
            /\ UNCHANGED userDirs
    /\ UNCHANGED <<now, ticks, plans, payments, sessions, files, nextSid,
                   keysOk, sweepVars, lastCheck, vp, verified>>

SessionRow(userId, text) ==
    [user_id |-> userId, original_text |-> text, status |-> "processing",
     error_message |-> "", created_at |-> now, processed_at |-> NoDate]

ChatInsertSession(c, ok) ==
    /\ chat[c].pc = "insert_session"
    /\ IF ok
       THEN /\ sessions' = Upsert(sessions, chat[c].newSessionId,
                    SessionRow(chat[c].userId, trim(chat[c].message)))
            /\ LoopFrom(c, [chat[c] EXCEPT !.sessionId = chat[c].newSessionId],
                        1)
       ELSE /\ Throw(c, chat[c], "session insert failed")
            /\ UNCHANGED sessions
    /\ UNCHANGED <<now, ticks, plans, payments, userDirs, files, nextSid,
                   keysOk, sweepVars, lastCheck, vp, verified>>

SegmentAborts(c) == Throw(c, chat[c], "segment failed")

(* The catch block of the loop body: segment i is replaced. *)
SegmentFailed(c) ==
    LET i == chat[c].i
        local == [chat[c] EXCEPT
                    !.messages[i].audio = NullValue,
                    !.messages[i].lipsync = NullValue,
                    !.messages[i].facialExpression = "sad",
                    !.messages[i].animation = "Terrified",
                    !.failed = @ \cup {i}]
    IN  LoopFrom(c, local, i + 1)

MyFile(c, extension) ==
    FilePath(chat[c].userId, chat[c].sessionId, chat[c].i - 1, extension)

SegTextToSpeech(c, ok) ==
    /\ chat[c].pc = "tts"
    /\ IF ok
       THEN /\ files' = files \cup {MyFile(c, "mp3")}
            /\ chat' = [chat EXCEPT ![c].pc = "ffmpeg"]
       ELSE /\ SegmentFailed(c)
            /\ UNCHANGED files
    /\ UNCHANGED <<now, ticks, plans, payments, sessions, userDirs, nextSid,
                   keysOk, sweepVars, lastCheck, vp, verified>>

SegOptimize(c, ok) ==
    /\ chat[c].pc = "ffmpeg"
    /\ IF ok
       THEN /\ files' = files \cup {MyFile(c, "wav")}
            /\ chat' = [chat EXCEPT ![c].pc = "rhubarb"]
       ELSE /\ chat' = [chat EXCEPT ![c].pc = "ffmpeg_fallback"]
            /\ UNCHANGED files
    /\ UNCHANGED <<now, ticks, plans, payments, sessions, userDirs, nextSid,
                   keysOk, sweepVars, lastCheck, vp, verified>>

SegFallback(c, ok) ==
    /\ chat[c].pc = "ffmpeg_fallback"
    /\ IF ok
       THEN /\ files' = files \cup {MyFile(c, "wav")}
            /\ chat' = [chat EXCEPT ![c].pc = "rhubarb"]
       ELSE /\ SegmentFailed(c)
            /\ UNCHANGED files
    /\ UNCHANGED <<now, ticks, plans, payments, sessions, userDirs, nextSid,
                   keysOk, sweepVars, lastCheck, vp, verified>>

SegRhubarb(c, ok) ==
    /\ chat[c].pc = "rhubarb"
    /\ IF ok
       THEN /\ files' = files \cup {MyFile(c, "json")}
            /\ chat' = [chat EXCEPT ![c].pc = "read_mp3"]
       ELSE /\ SegmentFailed(c)
            /\ UNCHANGED files
    /\ UNCHANGED <<now, ticks, plans, payments, sessions, userDirs, nextSid,
                   keysOk, sweepVars, lastCheck, vp, verified>>

SegReadAudio(c, ok) ==
    /\ chat[c].pc = "read_mp3"
    /\ IF ok /\ MyFile(c, "mp3") \in files
       THEN chat' = [chat EXCEPT
                ![c].pc = "read_json",
                ![c].messages[chat[c].i].audio =
                    <<"mp3", chat[c].sessionId, chat[c].i - 1>>]
       ELSE SegmentFailed(c)
    /\ UNCHANGED <<now, ticks, storeVars,
                   keysOk, sweepVars, lastCheck, vp, verified>>

SegReadLipsync(c, ok) ==
    /\ chat[c].pc = "read_json"
    /\ IF ok /\ MyFile(c, "json") \in files
       THEN chat' = [chat EXCEPT
                ![c].pc = "unlink_wav",
                ![c].messages[chat[c].i].lipsync =
                    <<"json", chat[c].sessionId, chat[c].i - 1>>]
       ELSE SegmentFailed(c)
    /\ UNCHANGED <<now, ticks, storeVars,
                   keysOk, sweepVars, lastCheck, vp, verified>>

SegUnlinkWav(c, ok) ==
    /\ chat[c].pc = "unlink_wav"
    /\ IF ok /\ MyFile(c, "wav") \in files
       THEN /\ files' = files \ {MyFile(c, "wav")}
            /\ chat' = [chat EXCEPT ![c].pc = "unlink_json"]
       ELSE /\ LoopFrom(c, chat[c], chat[c].i + 1)
            /\ UNCHANGED files
    /\ UNCHANGED <<now, ticks, plans, payments, sessions, userDirs, nextSid,
                   keysOk, sweepVars, lastCheck, vp, verified>>

SegUnlinkJson(c, ok) ==
    /\ chat[c].pc = "unlink_json"
    /\ files' = IF ok THEN files \ {MyFile(c, "json")} ELSE files
    /\ LoopFrom(c, chat[c], chat[c].i + 1)
    /\ UNCHANGED <<now, ticks, plans, payments, sessions, userDirs, nextSid,
                   keysOk, sweepVars, lastCheck, vp, verified>>

----------------------------------------------------------------------------
(* app.post("/chat"): closing the session, the decrement, the response *)

updateAudioSession(sessionId, status, message, processed) ==
    IF sessionId \in DOMAIN sessions
    THEN [sessions EXCEPT ![sessionId].status = status,
                          ![sessionId].error_message = message,
                          ![sessionId].processed_at = processed]
    ELSE sessions

ChatCloseUnchecked(c, ok) ==
    /\ chat[c].pc = "close"
    /\ sessions' = IF ok
                   THEN updateAudioSession(chat[c].sessionId, "completed",
                            IF chat[c].sessionId \in DOMAIN sessions
                            THEN sessions[chat[c].sessionId].error_message
                            ELSE "",
                            now)
                   ELSE sessions
    /\ chat' = [chat EXCEPT ![c].pc = "dec_select", ![c].calls.dec = @ + 1]
    /\ UNCHANGED <<now, ticks, plans, payments, userDirs, files, nextSid,
                   keysOk, sweepVars, lastCheck, vp, verified>>

ChatClose(c, ok) ==
    /\ chat[c].pc = "close"
    /\ IF ok
       THEN /\ sessions' = updateAudioSession(chat[c].sessionId, "completed",
                    IF chat[c].sessionId \in DOMAIN sessions
                    THEN sessions[chat[c].sessionId].error_message ELSE "",
                    now)
            /\ chat' = [chat EXCEPT ![c].pc = "dec_select",
                                    ![c].calls.dec = @ + 1]
       ELSE /\ Throw(c, chat[c], "session update failed")
            /\ UNCHANGED sessions
    /\ UNCHANGED <<now, ticks, plans, payments, userDirs, files, nextSid,
                   keysOk, sweepVars, lastCheck, vp, verified>>

Success(local, newCount) ==
    [NoResponse EXCEPT !.status = 200,
                       !.messages = local.messages,
                       !.remainingMessages = newCount]

DecSelectNoFloor(c, ok) ==
    /\ chat[c].pc = "dec_select"
    /\ LET u == chat[c].userId
       IN  IF ~ok \/ u \notin DOMAIN plans
           THEN Throw(c, chat[c], "select failed")
           ELSE IF plans[u].messages_remaining >= 0
           THEN chat' = [chat EXCEPT
                    ![c].pc = "dec_update",
                    ![c].data = plans[u].messages_remaining]
           ELSE Respond(c, [chat[c] EXCEPT
                                !.data = plans[u].messages_remaining],
                        Success(chat[c], plans[u].messages_remaining))
    /\ UNCHANGED <<now, ticks, storeVars,
                   keysOk, sweepVars, lastCheck, vp, verified>>

DecSelect(c, ok) ==
    /\ chat[c].pc = "dec_select"
    /\ LET u == chat[c].userId
       IN  IF ~ok \/ u \notin DOMAIN plans
           THEN Throw(c, chat[c], "select failed")
           ELSE IF plans[u].messages_remaining > 0
           THEN chat' = [chat EXCEPT
                    ![c].pc = "dec_update",
                    ![c].data = plans[u].messages_remaining]
           ELSE Respond(c, [chat[c] EXCEPT
                                !.data = plans[u].messages_remaining],
                        Success(chat[c], plans[u].messages_remaining))
    /\ UNCHANGED <<now, ticks, storeVars,
                   keysOk, sweepVars, lastCheck, vp, verified>>

DecUpdateLostReply(c, ok) ==
    /\ chat[c].pc = "dec_update"
    /\ LET u == chat[c].userId
       IN  IF u \in DOMAIN plans
           THEN /\ plans' = [plans EXCEPT
                        ![u].messages_remaining = chat[c].data - 1]
                /\ Forget(u)
                /\ IF ok
                   THEN Respond(c, [chat[c] EXCEPT !.calls.decWrites = @ + 1],
                                Success(chat[c], chat[c].data - 1))
                   ELSE Throw(c, chat[c], "update failed")
           ELSE /\ Throw(c, chat[c], "update failed")
                /\ UNCHANGED <<plans, lastCheck>>
    /\ UNCHANGED <<now, ticks, payments, sessions, userDirs, files, nextSid,
                   keysOk, sweepVars, vp, verified>>

DecUpdate(c, ok) ==
    /\ chat[c].pc = "dec_update"
    /\ LET u == chat[c].userId
       IN  IF ok /\ u \in DOMAIN plans
           THEN /\ plans' = [plans EXCEPT
                        ![u].messages_remaining = chat[c].data - 1]
                /\ Forget(u)
                /\ Respond(c, [chat[c] EXCEPT !.calls.decWrites = @ + 1],
                           Success(chat[c], chat[c].data - 1))
           ELSE /\ Throw(c, chat[c], "update failed")
                /\ UNCHANGED <<plans, lastCheck>>
    /\ UNCHANGED <<now, ticks, payments, sessions, userDirs, files, nextSid,
                   keysOk, sweepVars, vp, verified>>

ChatFailUpdate(c, ok) ==
    /\ chat[c].pc = "fail_update"
    /\ sessions' = IF ok
                   THEN updateAudioSession(chat[c].sessionId, "failed",
                            chat[c].error,
                            IF chat[c].sessionId \in DOMAIN sessions
                            THEN sessions[chat[c].sessionId].processed_at
                            ELSE NoDate)
                   ELSE sessions
    /\ Respond(c, chat[c], Failure(chat[c].error))
    /\ UNCHANGED <<now, ticks, plans, payments, userDirs, files, nextSid,
                   keysOk, sweepVars, lastCheck, vp, verified>>

ChatReturn(c) ==
    /\ chat[c].pc = "done"
    /\ chat' = [chat EXCEPT ![c] = [ChatIdle EXCEPT !.n = chat[c].n]]
    /\ UNCHANGED <<now, ticks, storeVars,
                   keysOk, sweepVars, lastCheck, vp, verified>>

chatRequest(c) ==
        \/ \E u \in ChatUserInputs, m \in MessageInputs : ChatReceive(c, u, m)
        \/ \E ok \in BOOLEAN : ChatAccess(c, ok)
        \/ \E ok \in BOOLEAN : CmlSelect(c, ok)
        \/ \E ok \in BOOLEAN : CmlInsert(c, ok)
        \/ \E ok \in BOOLEAN : CmlUpdate(c, ok)
        \/ \E o \in GenOutcomes : ChatGenerate(c, o)
        \/ \E ok \in BOOLEAN : ChatEnsureDir(c, ok)
        \/ \E ok \in BOOLEAN : ChatInsertSession(c, ok)
        \/ \E ok \in BOOLEAN : SegTextToSpeech(c, ok)
        \/ \E ok \in BOOLEAN : SegOptimize(c, ok)
        \/ \E ok \in BOOLEAN : SegFallback(c, ok)
        \/ \E ok \in BOOLEAN : SegRhubarb(c, ok)
        \/ \E ok \in BOOLEAN : SegReadAudio(c, ok)
        \/ \E ok \in BOOLEAN : SegReadLipsync(c, ok)
        \/ \E ok \in BOOLEAN : SegUnlinkWav(c, ok)
        \/ \E ok \in BOOLEAN : SegUnlinkJson(c, ok)
        \/ \E ok \in BOOLEAN : ChatClose(c, ok)
        \/ \E ok \in BOOLEAN : DecSelect(c, ok)
        \/ \E ok \in BOOLEAN : DecUpdate(c, ok)
        \/ \E ok \in BOOLEAN : ChatFailUpdate(c, ok)
        \/ ChatReturn(c)

----------------------------------------------------------------------------
(* expireOldPlans: the daily sweep over the expired paid plans *)

(* History of a sweep, for stating properties only: failed (some operation *)
(* of the run failed), plans0 and payments0 (the tables as the select saw  *)
(* them), started (the requests begun by then, or NoCount when one was in  *)
(* flight).                                                                *)
ExpireIdle ==
    [pc |-> "idle", now |-> 0, expiredPlans |-> {}, plan |-> "u1",
     failed |-> FALSE, plans0 |-> <<>>, payments0 |-> <<>>,
     started |-> NoCount, n |-> 0]

Busy ==
    \/ \E v \in VProcs : vp[v].pc # "idle"
    \/ \E c \in CProcs : chat[c].pc # "idle"

Started == IF Busy THEN NoCount ELSE VerifyCalls + ChatCalls

(* .lt('expires_at', now).neq('plan_type', 'free'): a null expiration      *)
(* matches no comparison.                                                  *)
IsExpired(row, at) ==
    /\ row.expires_at # NoDate
    /\ row.expires_at < at
    /\ row.plan_type # "free"

ExpiredRowKeepsDate(row, at) ==
    [plan_type |-> "free", messages_remaining |-> 1,
     last_reset_date |-> row.last_reset_date, expires_at |-> NoDate]

ExpiredRow(row, at) ==
    [plan_type |-> "free", messages_remaining |-> 1,
     last_reset_date |-> at, expires_at |-> NoDate]

(* "for (const plan of expiredPlans || [])": the next plan of the list, in *)
(* whatever order the select returned them, or the end of the run.         *)
ExpLoop(local) ==
    IF local.expiredPlans = {}
    THEN { [local EXCEPT !.pc = "done"] }
    ELSE { [local EXCEPT !.pc = "update", !.plan = u,
                         !.expiredPlans = @ \ {u}] :
           u \in local.expiredPlans }

ExpStart ==
    /\ expire.pc = "idle"
    /\ expire.n < MaxSweeps
    /\ expire' = [ExpireIdle EXCEPT !.pc = "select", !.now = now,
                                    !.n = expire.n + 1]
    /\ UNCHANGED <<now, ticks, storeVars, keysOk, cleanup, lastCheck, vp,
                   chat, verified>>

ExpSelect(ok) ==
    /\ expire.pc = "select"
    /\ LET seen == [expire EXCEPT !.plans0 = plans, !.payments0 = payments,
                                  !.started = Started]
       IN  IF ~ok
           THEN expire' = [seen EXCEPT !.pc = "done", !.failed = TRUE]
           ELSE expire' \in ExpLoop([seen EXCEPT !.expiredPlans =
                    { u \in DOMAIN plans : IsExpired(plans[u], expire.now) }])
    /\ UNCHANGED <<now, ticks, storeVars, keysOk, cleanup, lastCheck, vp,
                   chat, verified>>

ExpUpdate(ok) ==
    /\ expire.pc = "update"
    /\ LET u == expire.plan
       IN  IF ok /\ u \in DOMAIN plans
           THEN /\ plans' = [plans EXCEPT
                        ![u] = ExpiredRow(plans[u], expire.now)]
                /\ Forget(u)
                /\ expire' = [expire EXCEPT !.pc = "payments"]
           ELSE /\ expire' \in ExpLoop([expire EXCEPT !.failed = TRUE])
                /\ UNCHANGED <<plans, lastCheck>>
    /\ UNCHANGED <<now, ticks, payments, sessions, userDirs, files, nextSid,
                   keysOk, cleanup, vp, chat, verified>>

ExpPayments(ok) ==
    /\ expire.pc = "payments"
    /\ IF ok
       THEN /\ payments' = [i \in DOMAIN payments |->
                    IF /\ payments[i].user_id = expire.plan
                       /\ payments[i].status = "null"
                    THEN [payments[i] EXCEPT !.status = "expired"]
                    ELSE payments[i]]
            /\ expire' \in ExpLoop(expire)
       ELSE /\ UNCHANGED payments
            /\ expire' \in ExpLoop([expire EXCEPT !.failed = TRUE])
    /\ UNCHANGED <<now, ticks, plans, sessions, userDirs, files, nextSid,
                   keysOk, cleanup, lastCheck, vp, chat, verified>>

ExpReturn ==
    /\ expire.pc = "done"
    /\ expire' = [ExpireIdle EXCEPT !.n = expire.n]
    /\ UNCHANGED <<now, ticks, storeVars, keysOk, cleanup, lastCheck, vp,
                   chat, verified>>

expireOldPlans ==
    \/ ExpStart
    \/ \E ok \in BOOLEAN : ExpSelect(ok)
    \/ \E ok \in BOOLEAN : ExpUpdate(ok)
    \/ \E ok \in BOOLEAN : ExpPayments(ok)
    \/ ExpReturn

----------------------------------------------------------------------------
(* AudioManager.cleanupOldFiles: the hourly sweep over the old sessions *)

RetentionHours == 24

(* History of a sweep, for stating properties only: at (the time the run   *)
(* began), failed, sessions0 and files0 (the table and the files as the    *)
(* select saw them), started.                                              *)
CleanupIdle ==
    [pc |-> "idle", cutoffTime |-> 0, oldSessions |-> {},
     session |-> [session_id |-> NoSession, user_id |-> "u1"],
     listed |-> {}, at |-> 0, failed |-> FALSE, sessions0 |-> <<>>,
     files0 |-> {}, started |-> NoCount, n |-> 0]

(* file.startsWith(session.session_id) for a file of the directory of the  *)
(* user: the name of a session file is the session identifier followed by  *)
(* "_message_", and no identifier is the beginning of another one.         *)
StartsWith(file, sessionId) == file[2] = sessionId

IsOlderOrEqual(row, cutoffTime) == row.created_at <= cutoffTime

(* .lt('created_at', cutoffTime) *)
IsOlder(row, cutoffTime) == row.created_at < cutoffTime

(* "for (const session of oldSessions || [])" *)
CleanLoop(local) ==
    IF local.oldSessions = {}
    THEN { [local EXCEPT !.pc = "done"] }
    ELSE { [local EXCEPT !.pc = "access", !.session = x, !.listed = {},
                         !.oldSessions = @ \ {x}] :
           x \in local.oldSessions }

CleanStart ==
    /\ cleanup.pc = "idle"
    /\ cleanup.n < MaxSweeps
    /\ cleanup' = [CleanupIdle EXCEPT !.pc = "select", !.at = now,
                        !.cutoffTime = now - RetentionHours,
                        !.n = cleanup.n + 1]
    /\ UNCHANGED <<now, ticks, storeVars, keysOk, expire, lastCheck, vp,
                   chat, verified>>

CleanSelect(ok) ==
    /\ cleanup.pc = "select"
    /\ LET seen == [cleanup EXCEPT !.sessions0 = sessions, !.files0 = files,
                                   !.started = Started]
       IN  IF ~ok
           THEN cleanup' = [seen EXCEPT !.pc = "done", !.failed = TRUE]
           ELSE cleanup' \in CleanLoop([seen EXCEPT !.oldSessions =
                    { [session_id |-> x, user_id |-> sessions[x].user_id] :
                      x \in { y \in DOMAIN sessions :
                                IsOlder(sessions[y], cleanup.cutoffTime) } }])
    /\ UNCHANGED <<now, ticks, storeVars, keysOk, expire, lastCheck, vp,
                   chat, verified>>

(* fs.access(userDir): a failure is taken for a missing directory. *)
CleanAccess(ok) ==
    /\ cleanup.pc = "access"
    /\ IF cleanup.session.user_id \notin userDirs
       THEN cleanup' = [cleanup EXCEPT !.pc = "delete"]
       ELSE IF ~ok
       THEN cleanup' = [cleanup EXCEPT !.pc = "delete", !.failed = TRUE]
       ELSE cleanup' = [cleanup EXCEPT !.pc = "readdir"]
    /\ UNCHANGED <<now, ticks, storeVars, keysOk, expire, lastCheck, vp,
                   chat, verified>>

(* fs.readdir(userDir), then the loop over the listing up to the first     *)
(* unlink; listed holds the files of the session still to be unlinked.     *)
CleanReaddir(ok) ==
    /\ cleanup.pc = "readdir"
    /\ LET mine == { f \in files :
                        /\ f[1] = cleanup.session.user_id
                        /\ StartsWith(f, cleanup.session.session_id) }
       IN  IF ~ok
           THEN cleanup' = [cleanup EXCEPT !.pc = "delete", !.failed = TRUE]
           ELSE IF mine = {}
           THEN cleanup' = [cleanup EXCEPT !.pc = "delete"]
           ELSE cleanup' = [cleanup EXCEPT !.pc = "unlink", !.listed = mine]
    /\ UNCHANGED <<now, ticks, storeVars, keysOk, expire, lastCheck, vp,
                   chat, verified>>

(* fs.unlink of the next listed file, in the order of the listing; a       *)
(* failure leaves the loop for the catch block and the rest stays.         *)
CleanUnlink(ok) ==
    /\ cleanup.pc = "unlink"
    /\ \E f \in cleanup.listed :
            IF ok /\ f \in files
            THEN /\ files' = files \ {f}
                 /\ cleanup' = [cleanup EXCEPT
                        !.listed = @ \ {f},
                        !.pc = IF cleanup.listed = {f}
                               THEN "delete" ELSE "unlink"]
            ELSE /\ UNCHANGED files
                 /\ cleanup' = [cleanup EXCEPT !.pc = "delete",
                                               !.failed = TRUE]
    /\ UNCHANGED <<now, ticks, plans, payments, sessions, userDirs, nextSid,
                   keysOk, expire, lastCheck, vp, chat, verified>>

(* The delete of the session record; its error is only logged. *)
CleanDelete(ok) ==
    /\ cleanup.pc = "delete"
    /\ IF ok
       THEN /\ sessions' = [x \in DOMAIN sessions \
                                    {cleanup.session.session_id} |->
                                sessions[x]]
            /\ cleanup' \in CleanLoop(cleanup)
       ELSE /\ UNCHANGED sessions
            /\ cleanup' \in CleanLoop([cleanup EXCEPT !.failed = TRUE])
    /\ UNCHANGED <<now, ticks, plans, payments, userDirs, files, nextSid,
                   keysOk, expire, lastCheck, vp, chat, verified>>

CleanReturn ==
    /\ cleanup.pc = "done"
    /\ cleanup' = [CleanupIdle EXCEPT !.n = cleanup.n]
    /\ UNCHANGED <<now, ticks, storeVars, keysOk, expire, lastCheck, vp,
                   chat, verified>>

cleanupOldFiles ==
    \/ CleanStart
    \/ \E ok \in BOOLEAN : CleanSelect(ok)
    \/ \E ok \in BOOLEAN : CleanAccess(ok)
    \/ \E ok \in BOOLEAN : CleanReaddir(ok)
    \/ \E ok \in BOOLEAN : CleanUnlink(ok)
    \/ \E ok \in BOOLEAN : CleanDelete(ok)
    \/ CleanReturn

----------------------------------------------------------------------------
(* The clock *)

Tick(d) ==
    /\ ticks < MaxTicks
    /\ now' = now + d
    /\ ticks' = ticks + 1
    /\ UNCHANGED <<storeVars, keysOk, sweepVars, lastCheck, vp, chat, verified>>

----------------------------------------------------------------------------
(* The payment ledger on its own *)

InitCommon ==
    /\ now = StartHour
    /\ ticks = 0
    /\ payments = <<>>
    /\ sessions = <<>>
    /\ userDirs = {}
    /\ files = {}
    /\ nextSid = 1
    /\ vp = [v \in VProcs |-> VpIdle]
    /\ chat = [c \in CProcs |-> ChatIdle]
    /\ verified = {}
    /\ expire = ExpireIdle
    /\ cleanup = CleanupIdle
    /\ lastCheck = [u \in Users |-> NoCheck]

InitPay ==
    /\ InitCommon
    /\ keysOk = TRUE
    /\ plans \in InitialPlans

NextPay ==
    \/ verifyPayment
    \/ \E d \in TickSteps : Tick(d)

SpecPay == InitPay /\ [][NextPay]_vars

----------------------------------------------------------------------------
(* The /chat pipeline with the quota gate *)

InitialChatRows == {
    [plan_type |-> "free", messages_remaining |-> 1,
     last_reset_date |-> StartHour, expires_at |-> NoDate],
    [plan_type |-> "free", messages_remaining |-> 0,
     last_reset_date |-> StartHour, expires_at |-> NoDate],
    [plan_type |-> "pro", messages_remaining |-> 0,
     last_reset_date |-> 0, expires_at |-> ThirtyDays] }

InitialChatPlans ==
    {<<>>} \cup { [u \in {"u1"} |-> row] : row \in InitialChatRows }

InitChat ==
    /\ InitCommon
    /\ keysOk \in BOOLEAN
    /\ plans \in InitialChatPlans

NextChat == chatRequest("c1")

SpecChat == InitChat /\ [][NextChat]_vars

----------------------------------------------------------------------------
(* The ledger of one user: requests whose reply is an empty list of        *)
(* segments, under concurrency (two connections and the clock), and next   *)
(* to a purchase (one connection, one buyer who buys once, and the clock)  *)

LedgerMessages == { <<>>, <<" ", "h", "i", " ">> }

LedgerPurchases == {
    [transactionId |->
        <<"f","q","8","2","l","w","7","r","m","0","4","b","z","j","n">>,
     planType |-> "pro"],
    [transactionId |->
        <<"q","a","6","3","v","m","1","p","r","8","4","j","z","o","x">>,
     planType |-> "premium"] }

InitialLedgerRows == InitialChatRows \cup {
    [plan_type |-> "premium", messages_remaining |-> 37,
     last_reset_date |-> StartHour, expires_at |-> 12 + ThirtyDays] }

InitialLedgerPlans ==
    {<<>>} \cup { [u \in {"u1"} |-> row] : row \in InitialLedgerRows }

InitLedger ==
    /\ InitCommon
    /\ keysOk = TRUE
    /\ plans \in InitialLedgerPlans

ledgerRequest(c) ==
        \/ \E m \in LedgerMessages : ChatReceive(c, "u1", m)
        \/ ChatAccess(c, TRUE)
        \/ \E ok \in BOOLEAN : CmlSelect(c, ok)
        \/ \E ok \in BOOLEAN : CmlInsert(c, ok)
        \/ \E ok \in BOOLEAN : CmlUpdate(c, ok)
        \/ ChatGenerate(c, [kind |-> "list", n |-> 0])
        \/ ChatEnsureDir(c, TRUE)
        \/ ChatInsertSession(c, TRUE)
        \/ ChatClose(c, TRUE)
        \/ \E ok \in BOOLEAN : DecSelect(c, ok)
        \/ \E ok \in BOOLEAN : DecUpdate(c, ok)
        \/ ChatFailUpdate(c, TRUE)
        \/ ChatReturn(c)

ledgerPayment(v) ==
        \/ \E x \in LedgerPurchases :
                /\ vp[v].n = 0
                /\ VpCall(v, "u1", x.transactionId, x.planType)
        \/ VpCheck(v, TRUE)
        \/ VpReadPlan(v, TRUE)
        \/ VpInsert(v, TRUE)
        \/ VpUpsert(v, TRUE)
        \/ VpReturn(v)

NextLedger ==
    \/ ledgerRequest("c1")
    \/ ledgerRequest("c2")
    \/ \E d \in TickSteps : Tick(d)

SpecLedger == InitLedger /\ [][NextLedger]_vars

NextAccount ==
    \/ ledgerRequest("c1")
    \/ ledgerPayment("v1")
    \/ \E d \in TickSteps : Tick(d)

SpecAccount == InitLedger /\ [][NextAccount]_vars

(* One connection next to the daily expiration sweep and the clock. *)
NextTier ==
    \/ ledgerRequest("c1")
    \/ expireOldPlans
    \/ \E d \in TickSteps : Tick(d)

SpecTier == InitLedger /\ [][NextTier]_vars

----------------------------------------------------------------------------
(* The session store: requests of a paying user whose reply is one         *)
(* segment, the hourly sweep and the clock.  The table may hold a session  *)
(* of an earlier run of the server whose user directory is gone.           *)

StaleSession == 9

InitialSessions == {
    <<>>,
    [x \in {StaleSession} |->
        [user_id |-> "u2", original_text |-> <<"h", "i">>,
         status |-> "completed", error_message |-> "",
         created_at |-> 0, processed_at |-> 0]] }

InitPurge ==
    /\ now = StartHour
    /\ ticks = 0
    /\ plans = [u \in {"u1"} |->
            [plan_type |-> "premium", messages_remaining |-> 37,
             last_reset_date |-> StartHour, expires_at |-> 12 + ThirtyDays]]
    /\ payments = <<>>
    /\ sessions \in InitialSessions
    /\ userDirs = {}
    /\ files = {}
    /\ nextSid = 1
    /\ keysOk = TRUE
    /\ vp = [v \in VProcs |-> VpIdle]
    /\ chat = [c \in CProcs |-> ChatIdle]
    /\ verified = {}
    /\ expire = ExpireIdle
    /\ cleanup = CleanupIdle
    /\ lastCheck = [u \in Users |-> NoCheck]

purgeRequest(c) ==
        \/ ChatReceive(c, "u1", <<" ", "h", "i", " ">>)
        \/ ChatAccess(c, TRUE)
        \/ CmlSelect(c, TRUE)
        \/ CmlUpdate(c, TRUE)
        \/ ChatGenerate(c, [kind |-> "list", n |-> 1])
        \/ ChatEnsureDir(c, TRUE)
        \/ ChatInsertSession(c, TRUE)
        \/ \E ok \in BOOLEAN : SegTextToSpeech(c, ok)
        \/ SegOptimize(c, TRUE)
        \/ SegRhubarb(c, TRUE)
        \/ SegReadAudio(c, TRUE)
        \/ SegReadLipsync(c, TRUE)
        \/ \E ok \in BOOLEAN : SegUnlinkWav(c, ok)
        \/ SegUnlinkJson(c, TRUE)
        \/ ChatClose(c, TRUE)
        \/ DecSelect(c, TRUE)
        \/ DecUpdate(c, TRUE)
        \/ ChatReturn(c)

NextPurge ==
    \/ purgeRequest("c1")
    \/ cleanupOldFiles
    \/ \E d \in TickSteps : Tick(d)

SpecPurge == InitPurge /\ [][NextPurge]_vars

----------------------------------------------------------------------------
(* The expiration sweep: the daily run, one buyer who buys once, and the   *)
(* clock, over a ledger that may hold purchases made before the start      *)

EarlierPayment(userId, planType, clean, usedAt, status) ==
    [user_id |-> userId, plan_type |-> planType, transaction_id |-> clean,
     used_at |-> usedAt, amount |-> planAmounts(planType), status |-> status]

EarlierPro ==
    [plan_type |-> "pro", messages_remaining |-> 2,
     last_reset_date |-> 0, expires_at |-> ThirtyDays]

EarlierPremium ==
    [plan_type |-> "premium", messages_remaining |-> 37,
     last_reset_date |-> StartHour, expires_at |-> StartHour + ThirtyDays]

InitialLedgers == {
    [plans |-> <<>>, payments |-> <<>>],
    [plans |-> [u \in {"u1"} |-> EarlierPro],
     payments |-> <<
        EarlierPayment("u1", "pro",
            <<"y","p","6","3","v","d","9","g","t","5","8","x","s","a","r">>,
            0, "null") >>],
    [plans |-> [u \in Users |->
                    IF u = "u1" THEN EarlierPro ELSE EarlierPremium],
     payments |-> <<
        EarlierPayment("u1", "pro",
            <<"y","p","6","3","v","d","9","g","t","5","8","x","s","a","r">>,
            0, "null"),
        EarlierPayment("u2", "premium",
            <<"l","y","4","8","t","f","7","b","w","5","2","d","s","h","k">>,
            StartHour, "null") >>] }

InitExpire ==
    /\ now = StartHour
    /\ ticks = 0
    /\ \E ledger \in InitialLedgers :
            /\ plans = ledger.plans
            /\ payments = ledger.payments
    /\ sessions = <<>>
    /\ userDirs = {}
    /\ files = {}
    /\ nextSid = 1
    /\ keysOk = TRUE
    /\ vp = [v \in VProcs |-> VpIdle]
    /\ chat = [c \in CProcs |-> ChatIdle]
    /\ verified = {}
    /\ expire = ExpireIdle
    /\ cleanup = CleanupIdle
    /\ lastCheck = [u \in Users |-> NoCheck]

NextExpire ==
    \/ expireOldPlans
    \/ ledgerPayment("v1")
    \/ \E d \in TickSteps : Tick(d)

SpecExpire == InitExpire /\ [][NextExpire]_vars

----------------------------------------------------------------------------
(* Properties of verifyPayment *)

InAllowList(planType, clean) ==
    /\ planType \in {"pro", "pro_plus", "premium"}
    /\ clean \in PLAN_TRANSACTION_IDS[planType]

(* C1: a verifyPayment call that starts after some call has returned       *)
(* success for the same normalized code never returns success, whoever the *)
(* user and whatever the tier.                                             *)
C1_UsedCodeRejected ==
    \A v \in VProcs : (vp[v].pc = "done" /\ vp[v].late) => ~vp[v].success

(* C1 witness: a valid code, typed in another case and with surrounding    *)
(* blanks by another user, is rejected as already used.                    *)
C1_Witness ==
    \E v \in VProcs :
        /\ vp[v].pc = "done" /\ vp[v].late /\ ~vp[v].success
        /\ vp[v].error = "This payment ID has already been used"
        /\ vp[v].transactionId # vp[v].cleanTransactionId
        /\ \E i \in DOMAIN payments :
              /\ payments[i].transaction_id = vp[v].cleanTransactionId
              /\ payments[i].user_id # vp[v].userId

(* C2: in every reachable state at most one payment row exists per         *)
(* transaction code and at most one call in flight has returned success    *)
(* for a code, under any interleaving of concurrent calls.                 *)
C2_OneRowPerCode ==
    /\ \A i, j \in DOMAIN payments :
          payments[i].transaction_id = payments[j].transaction_id => i = j
    /\ \A v, w \in VProcs :
          ( /\ vp[v].pc = "done" /\ vp[v].success
            /\ vp[w].pc = "done" /\ vp[w].success
            /\ vp[v].cleanTransactionId = vp[w].cleanTransactionId ) => v = w

(* C3: a verifyPayment call that returns success=false has committed       *)
(* nothing: neither a payment row nor an entitlement row.                  *)
C3_NoPartialState ==
    \A v \in VProcs :
        (vp[v].pc = "done" /\ ~vp[v].success) => vp[v].wrote = {}

(* C4: a call whose normalized code is not in the allow-list of the        *)
(* requested tier returns success=false at once and writes no payment and  *)
(* no entitlement row, whether or not the code was used before.            *)
C4_NotAllowedRejected ==
    \A v \in VProcs :
        ( /\ vp[v].pc # "idle"
          /\ ~InAllowList(vp[v].planType, vp[v].cleanTransactionId) )
        => /\ vp[v].pc = "done"
           /\ ~vp[v].success
           /\ vp[v].wrote = {}

(* C4 witness: a code that was verified for its own tier is submitted for  *)
(* another tier and rejected as invalid.                                   *)
C4_Witness ==
    \E v \in VProcs :
        /\ vp[v].pc = "done" /\ vp[v].late /\ ~vp[v].success
        /\ vp[v].error = "Invalid transaction ID"
        /\ vp[v].planType \in {"pro_plus", "premium"}
        /\ vp[v].cleanTransactionId \in PLAN_TRANSACTION_IDS["pro"]

PurchasedAllocation(planType) ==
    CASE planType = "pro" -> 6
      [] planType = "pro_plus" -> 20
      [] planType = "premium" -> 50

C5_Step ==
    /\ payments' # payments
        => \E v \in VProcs : vp[v].pc = "insert" /\ vp'[v].pc = "upsert"
    /\ \A v \in VProcs :
        /\ (vp[v].pc = "insert" /\ vp'[v].pc = "upsert")
           => /\ Len(payments') = Len(payments) + 1
              /\ payments'[Len(payments')].transaction_id
                    = vp[v].cleanTransactionId
              /\ payments'[Len(payments')].user_id = vp[v].userId
              /\ payments'[Len(payments')].plan_type = vp[v].planType
        /\ (vp[v].pc = "upsert" /\ vp'[v].pc = "done" /\ vp'[v].success)
           => /\ vp[v].userId \in DOMAIN plans'
              /\ plans'[vp[v].userId] =
                    [plan_type |-> vp[v].planType,
                     messages_remaining |-> PurchasedAllocation(vp[v].planType),
                     last_reset_date |-> now,
                     expires_at |-> now + 30 * 24]
              /\ vp'[v].wrote = {"payment", "plan"}
              /\ payments' = payments

(* C5: the step in which verifyPayment succeeds leaves the user's          *)
(* entitlement with the purchased tier, that tier's daily allocation, reset *)
(* date now and expiration 30 days out, whatever the row was before, and   *)
(* the call has inserted exactly one payment row, for its code.            *)
C5_SuccessSetsEntitlement == [][C5_Step]_vars

(* C5 witness: a user holding a partly used premium row has bought pro.    *)
C5_Witness ==
    \E v \in VProcs :
        /\ vp[v].pc = "done" /\ vp[v].success /\ vp[v].planType = "pro"
        /\ vp[v].userId = "u1"
        /\ plans["u1"].plan_type = "pro"
        /\ plans["u1"].messages_remaining = 6
        /\ Len(payments) = 1
        /\ now > StartHour

----------------------------------------------------------------------------
(* Properties of the /chat request *)

GatePcs == {"cml_select", "cml_insert", "cml_update"}

Populated(seg, original, sessionId, k) ==
    /\ seg.audio = <<"mp3", sessionId, k - 1>>
    /\ seg.lipsync = <<"json", sessionId, k - 1>>
    /\ seg.facialExpression = original.facialExpression
    /\ seg.animation = original.animation

Degraded(seg) ==
    /\ seg.audio = NullValue
    /\ seg.lipsync = NullValue
    /\ seg.facialExpression = "sad"
    /\ seg.animation = "Terrified"

(* C6: a request that got a list of N segments and opened its session      *)
(* keeps N segments in the original order with their texts; each segment   *)
(* of which a step failed is degraded (audio and lipsync null, sad,        *)
(* Terrified), each other processed segment is populated; no segment       *)
(* failure ends the request with 500; and the 200 response carries these   *)
(* N segments after exactly one decrement call, which lowers the value it  *)
(* read by one when that value is positive.                                *)
C6_SegmentIsolation ==
    \A c \in CProcs :
        LET L == chat[c]
            N == Len(L.generated)
        IN  /\ (L.sessionId # NoSession /\ L.isList)
               => /\ Len(L.messages) = N
                  /\ \A k \in 1..N :
                        /\ L.messages[k].text = L.generated[k].text
                        /\ k \in L.failed => Degraded(L.messages[k])
                        /\ (k \notin L.failed /\ k < L.i)
                           => Populated(L.messages[k], L.generated[k],
                                        L.sessionId, k)
            /\ (L.pc = "done" /\ L.response.status = 500
                    /\ L.sessionId # NoSession)
               => L.error \in {"session update failed", "select failed",
                               "update failed"}
            /\ (L.pc = "done" /\ L.response.status = 200 /\ L.calls.gen = 1
                    /\ L.isList)
               => /\ L.response.messages = L.messages
                  /\ L.i = N + 1
                  /\ L.calls.tts = N
                  /\ L.calls.dec = 1
                  /\ L.data > 0 => /\ L.calls.decWrites = 1
                                   /\ L.response.remainingMessages = L.data - 1

(* C6 witness: of two segments the first failed and the second is          *)
(* populated, and the request answered 200 after one decrement.            *)
C6_Witness ==
    \E c \in CProcs :
        /\ chat[c].pc = "done" /\ chat[c].response.status = 200
        /\ Len(chat[c].generated) = 2
        /\ chat[c].failed = {1}
        /\ Degraded(chat[c].response.messages[1])
        /\ chat[c].response.messages[2].audio = <<"mp3", chat[c].sessionId, 1>>
        /\ chat[c].calls.decWrites = 1

C7_Step ==
    \A c \in CProcs :
        ( /\ chat[c].pc \in GatePcs
          /\ chat'[c].pc \notin GatePcs
          /\ ~chat'[c].limitCheck.canSend )
        => /\ chat'[c].pc = "done"
           /\ chat'[c].response.status = 429
           /\ chat'[c].response.upgradeRequired
           /\ Len(chat'[c].response.plans) = 3
           /\ chat'[c].response.remaining = chat'[c].limitCheck.remaining
           /\ chat'[c].calls = NoCalls
           /\ chat'[c].sessionId = NoSession
           /\ chat'[c].newSessionId = NoSession
           /\ storeVars' = storeVars

(* C7: the step in which checkMessageLimit returns canSend=false answers   *)
(* 429 with upgradeRequired and exactly 3 plans; the request has opened no *)
(* session and made no generation, synthesis or decrement call, and the    *)
(* step changes no stored row or file.                                     *)
C7_DenialShortCircuits == [][C7_Step]_vars

(* C7 witness: a request with a real message was denied at quota 0.        *)
C7_Witness ==
    \E c \in CProcs :
        /\ chat[c].pc = "done" /\ chat[c].response.status = 429
        /\ trim(chat[c].message) # NoText
        /\ chat[c].userId \in DOMAIN plans
        /\ plans[chat[c].userId].messages_remaining = 0
        /\ keysOk

QuietCanned(L) ==
    /\ L.response.status = 200
    /\ L.response.messages = CannedReply
    /\ \A k \in 1..2 : /\ L.response.messages[k].audio = Undefined
                       /\ L.response.messages[k].lipsync = Undefined
    /\ Len(L.response.messages) = 2
    /\ L.calls = NoCalls
    /\ L.sessionId = NoSession
    /\ L.newSessionId = NoSession

(* C8 as stated: an empty or whitespace-only message yields the canned     *)
(* reply for every state of the user's quota.                              *)
C8_CannedForEveryQuota ==
    \A c \in CProcs :
        ( /\ chat[c].pc = "done"
          /\ chat[c].userId \in Users
          /\ trim(chat[c].message) = NoText )
        => QuietCanned(chat[c])

(* C8 amended: an empty or whitespace-only message of a request that       *)
(* passed the quota gate yields the canned two-segment reply without       *)
(* audio or lip-sync, with no generation, synthesis or decrement call and  *)
(* no session; a request the gate denies answers 429 instead.              *)
C8_CannedWhenGatePasses ==
    \A c \in CProcs :
        ( /\ chat[c].pc = "done"
          /\ chat[c].userId \in Users
          /\ trim(chat[c].message) = NoText )
        => IF chat[c].limitCheck.canSend
           THEN QuietCanned(chat[c])
           ELSE chat[c].response.status = 429 /\ chat[c].calls = NoCalls

(* C8 witness: a whitespace-only message got the canned reply and the      *)
(* user still has the message of the free plan.                            *)
C8_Witness ==
    \E c \in CProcs :
        /\ chat[c].pc = "done"
        /\ chat[c].message = <<" ", "\t">>
        /\ QuietCanned(chat[c])
        /\ chat[c].userId \in DOMAIN plans
        /\ plans[chat[c].userId].messages_remaining = 1
        /\ ~keysOk

(* C9: a request that answers 500 has written no decrement: the stored     *)
(* messages remaining of its user is the value the gate check returned.    *)
C9_FailureKeepsQuota ==
    \A c \in CProcs :
        (chat[c].pc = "done" /\ chat[c].response.status = 500)
        => /\ chat[c].calls.decWrites = 0
           /\ chat[c].userId \in Users
              => /\ chat[c].limitCheck.canSend
                 /\ chat[c].userId \in DOMAIN plans
                 /\ plans[chat[c].userId].messages_remaining
                        = chat[c].limitCheck.remaining

(* C9 witness: the decrement's update failed after the session had been    *)
(* closed, and the request answered 500.                                   *)
C9_Witness ==
    \E c \in CProcs :
        /\ chat[c].pc = "done" /\ chat[c].response.status = 500
        /\ chat[c].error = "update failed"
        /\ chat[c].calls.dec = 1
        /\ plans[chat[c].userId].messages_remaining = chat[c].data

(* C10: a request without userId is answered with 400, never with 500,     *)
(* and creates no entitlement row and opens no session.                    *)
C10_MissingUserIs400 ==
    \A c \in CProcs :
        (chat[c].pc = "done" /\ chat[c].userId = Absent)
        => /\ chat[c].response.status = 400
           /\ chat[c].calls = NoCalls
           /\ chat[c].sessionId = NoSession

----------------------------------------------------------------------------
(* Properties of the ledger under concurrency *)

CheckPcs == {"cml_select", "cml_insert", "cml_update"}

(* C11: no step of a checkMessageLimit call lowers the stored remaining of *)
(* its user: the value the call leaves, the daily reset included, is at    *)
(* least the value that was stored before.                                 *)
C11_Step ==
    \A c \in CProcs :
        LET u == chat[c].userId
        IN  (/\ chat[c].pc \in CheckPcs
             /\ chat'[c] # chat[c]
             /\ u \in DOMAIN plans)
            => plans'[u].messages_remaining >= plans[u].messages_remaining

C11_CheckNeverLowers == [][C11_Step]_vars

(* C12: decrementMessageCount writes the value it read minus 1 when that   *)
(* value is greater than 0, and otherwise writes nothing and returns the   *)
(* value it read; the stored remaining is never negative, also when the    *)
(* decrements of two requests of one user interleave.                      *)
C12_NonNegative ==
    \A u \in DOMAIN plans : plans[u].messages_remaining >= 0

C12_Step ==
    \A c \in CProcs :
        LET u == chat[c].userId
        IN  /\ (/\ chat[c].pc = "dec_update"
                /\ chat'[c].pc = "done"
                /\ chat'[c].response.status = 200) =>
                    /\ chat[c].data > 0
                    /\ plans' = [plans EXCEPT
                            ![u].messages_remaining = chat[c].data - 1]
                    /\ chat'[c].response.remainingMessages = chat[c].data - 1
            /\ (/\ chat[c].pc = "dec_update"
                /\ chat'[c] # chat[c]
                /\ chat'[c].response.status # 200) => plans' = plans
            /\ (chat[c].pc = "dec_select" /\ chat'[c].pc = "dec_update") =>
                    /\ plans[u].messages_remaining > 0
                    /\ chat'[c].data = plans[u].messages_remaining
                    /\ plans' = plans
            /\ (/\ chat[c].pc = "dec_select"
                /\ chat'[c].pc = "done"
                /\ chat'[c].response.status = 200) =>
                    /\ plans[u].messages_remaining <= 0
                    /\ plans' = plans
                    /\ chat'[c].response.remainingMessages =
                            plans[u].messages_remaining

C12_DecrementFloor == []C12_NonNegative /\ [][C12_Step]_vars

(* C12 witness: two requests of one user have both passed the gate; one    *)
(* has written its decrement, the other then read 0 and wrote nothing.     *)
C12_Witness ==
    \E c, d \in CProcs :
        /\ c # d
        /\ chat[c].userId = chat[d].userId
        /\ chat[c].pc = "done" /\ chat[c].calls.decWrites = 1
        /\ chat[d].pc = "done" /\ chat[d].calls.dec = 1
        /\ chat[d].calls.decWrites = 0
        /\ chat[d].response.status = 200
        /\ chat[d].response.remainingMessages = 0

(* C13: a checkMessageLimit call that returns without error on the day of  *)
(* the previous such call of the same user, with no write of a decrement,  *)
(* a purchase or the sweep to the row in between, returns the remaining    *)
(* the previous call returned and leaves the row the previous call left.   *)
C13_Step ==
    \A c \in CProcs :
        LET u == chat[c].userId
        IN  (/\ chat[c].pc \in CheckPcs
             /\ chat'[c].pc \notin CheckPcs
             /\ ~chat'[c].limitCheck.error
             /\ lastCheck[u].valid
             /\ lastCheck[u].day = Day(chat'[c].at))
            => /\ chat'[c].limitCheck.remaining = lastCheck[u].remaining
               /\ u \in DOMAIN plans'
               /\ plans'[u] = lastCheck[u].row

C13_CheckIdempotent == [][C13_Step]_vars

(* C13 witness: the second check of the day has returned, after a first    *)
(* check that reset the row, with the clock advanced in between.           *)
C13_Witness ==
    \E c \in CProcs :
        LET u == chat[c].userId
        IN  /\ chat[c].pc = "done"
            /\ chat[c].again
            /\ ~chat[c].limitCheck.error
            /\ lastCheck[u].valid
            /\ lastCheck[u].how = "reset"
            /\ lastCheck[u].row.last_reset_date # chat[c].at

----------------------------------------------------------------------------
(* Properties of the sweeps *)

SessionFiles(all, sid, row) ==
    { f \in all : f[1] = row.user_id /\ f[2] = sid }

(* No request began or was in flight between the select of the run of      *)
(* cleanupOldFiles and now.                                                *)
CleanAlone == ~Busy /\ cleanup.started = VerifyCalls + ChatCalls

(* C14: at the end of a run of cleanupOldFiles in which every file and     *)
(* store operation succeeded, every session created more than 24 hours     *)
(* before the run has lost its record and every file of its user that      *)
(* carries its identifier, also when the directory of its user is missing; *)
(* every other session has its record and all its files as before.         *)
C14_PurgeEffect ==
    (cleanup.pc = "done" /\ ~cleanup.failed /\ CleanAlone) =>
        \A sid \in DOMAIN cleanup.sessions0 :
            LET row == cleanup.sessions0[sid]
            IN  IF row.created_at < cleanup.at - RetentionHours
                THEN /\ sid \notin DOMAIN sessions
                     /\ SessionFiles(files, sid, row) = {}
                ELSE /\ sid \in DOMAIN sessions
                     /\ sessions[sid] = row
                     /\ SessionFiles(files, sid, row) =
                            SessionFiles(cleanup.files0, sid, row)

(* C14 witness: a run has ended without a failure; it removed a session    *)
(* with a file, removed a session whose user directory is missing, and     *)
(* kept a session of the last 24 hours with its file.                      *)
C14_Witness ==
    /\ cleanup.pc = "done" /\ ~cleanup.failed /\ CleanAlone
    /\ \E sid \in DOMAIN cleanup.sessions0 :
            /\ sid \notin DOMAIN sessions
            /\ SessionFiles(cleanup.files0, sid, cleanup.sessions0[sid]) # {}
    /\ \E sid \in DOMAIN cleanup.sessions0 :
            /\ sid \notin DOMAIN sessions
            /\ cleanup.sessions0[sid].user_id \notin userDirs
    /\ \E sid \in DOMAIN sessions :
            /\ sid \in DOMAIN cleanup.sessions0
            /\ SessionFiles(files, sid, sessions[sid]) # {}

(* No request began or was in flight between the select of the run of      *)
(* expireOldPlans and now.                                                 *)
ExpAlone == ~Busy /\ expire.started = VerifyCalls + ChatCalls

WasExpired(u) ==
    /\ u \in DOMAIN expire.plans0
    /\ expire.plans0[u].expires_at # NoDate
    /\ expire.plans0[u].expires_at < expire.now
    /\ expire.plans0[u].plan_type # "free"

(* C15: at the end of a run of expireOldPlans in which every store         *)
(* operation succeeded, every row whose expiration was before the start of *)
(* the run and whose plan was not free is free with 1 message, no          *)
(* expiration and the start of the run as reset date, and the payments of  *)
(* its user that had no status are marked expired; every other row and     *)
(* every other payment is as it was.                                       *)
C15_ExpireEffect ==
    (expire.pc = "done" /\ ~expire.failed /\ ExpAlone) =>
        /\ DOMAIN plans = DOMAIN expire.plans0
        /\ \A u \in DOMAIN plans :
                plans[u] =
                    IF WasExpired(u)
                    THEN [plan_type |-> "free", messages_remaining |-> 1,
                          last_reset_date |-> expire.now,
                          expires_at |-> NoDate]
                    ELSE expire.plans0[u]
        /\ DOMAIN payments = DOMAIN expire.payments0
        /\ \A i \in DOMAIN payments :
                LET old == expire.payments0[i]
                IN  payments[i] =
                        IF WasExpired(old.user_id) /\ old.status = "null"
                        THEN [old EXCEPT !.status = "expired"]
                        ELSE old

(* C15 witness: a run has ended without a failure; it reverted an expired  *)
(* plan and marked its payment, and left alone a paid plan that expires at *)
(* the very start of the run, and its payment.                             *)
C15_Witness ==
    /\ expire.pc = "done" /\ ~expire.failed /\ ExpAlone
    /\ \E u \in DOMAIN plans :
            /\ WasExpired(u)
            /\ plans[u].plan_type = "free"
            /\ \E i \in DOMAIN payments :
                    /\ payments[i].user_id = u
                    /\ payments[i].status = "expired"
    /\ \E u \in DOMAIN plans :
            /\ plans[u].plan_type # "free"
            /\ plans[u].expires_at = expire.now
            /\ \E i \in DOMAIN payments :
                    /\ payments[i].user_id = u
                    /\ payments[i].status = "null"

----------------------------------------------------------------------------
(* Properties of the end of the /chat pipeline *)

DecrementPcs == {"dec_select", "dec_update"}

(* C16: a /chat run calls decrementMessageCount at most once, and only     *)
(* after generation, after textToSpeech has been called for every segment  *)
(* of the reply and after the session has been written as completed; a run *)
(* that answers 429 or the canned reply has not called it.                 *)
C16_DecrementLast ==
    \A c \in CProcs :
        /\ chat[c].calls.dec <= 1
        /\ chat[c].calls.decWrites <= chat[c].calls.dec
        /\ chat[c].pc \in DecrementPcs => chat[c].calls.dec = 1
        /\ chat[c].calls.dec = 1 =>
                /\ chat[c].limitCheck.canSend
                /\ chat[c].calls.gen = 1
                /\ chat[c].calls.open = 1
                /\ chat[c].calls.tts = Len(chat[c].generated)
                /\ chat[c].sessionId \in DOMAIN sessions
                /\ sessions[chat[c].sessionId].processed_at # NoDate
        /\ chat[c].pc \in DecrementPcs =>
                sessions[chat[c].sessionId].status = "completed"
        /\ (/\ chat[c].pc = "done"
            /\ \/ chat[c].response.status = 429
               \/ chat[c].response.messages = CannedReply) =>
                chat[c].calls.dec = 0

(* C16 witness: a run has answered 200 after its one decrement; the reply  *)
(* has the most segments and the processing of one of them failed.         *)
C16_Witness ==
    \E c \in CProcs :
        /\ chat[c].pc = "done"
        /\ chat[c].response.status = 200
        /\ chat[c].calls.dec = 1
        /\ chat[c].calls.decWrites = 1
        /\ Len(chat[c].generated) = MaxSegments
        /\ chat[c].failed # {}

(* C17: the status of an audio session leaves "processing" at most once:   *)
(* a session written as completed is never afterwards written as failed,   *)
(* and a session written as failed is never afterwards written as          *)
(* completed.                                                              *)
C17_Step ==
    \A sid \in DOMAIN sessions \cap DOMAIN sessions' :
        sessions[sid].status # "processing" =>
            sessions'[sid].status = sessions[sid].status

C17_StatusWrittenOnce == [][C17_Step]_vars

----------------------------------------------------------------------------
(* Properties of checkMessageLimit under persistence failures *)

(* C18: a checkMessageLimit call in which a persistence operation failed   *)
(* (the read of the row, the insert of a new row or the reset update)      *)
(* returns canSend = false with remaining = 0; a failed read is never      *)
(* taken for a user without a row and answered with canSend = true.        *)
C18_FailureDenies ==
    \A c \in CProcs :
        (chat[c].ioFailed /\ chat[c].pc \notin CheckPcs) =>
            /\ ~chat[c].limitCheck.canSend
            /\ chat[c].limitCheck.remaining = 0

----------------------------------------------------------------------------
(* Properties of the daily reset under concurrency *)

(* C19: for each user and day the reset of the remaining to the allocation *)
(* is performed once, on the first access of the day: a checkMessageLimit  *)
(* call that read the row before the reset of another request does not     *)
(* write the full allocation over a row that has since been reset for the  *)
(* day of the call and decremented.                                        *)
C19_Step ==
    \A c \in CProcs :
        LET u == chat[c].userId
        IN  (/\ chat[c].pc = "cml_update"
             /\ chat'[c].pc # "cml_update"
             /\ ~chat'[c].limitCheck.error
             /\ u \in DOMAIN plans
             /\ Day(plans[u].last_reset_date) = Day(chat[c].at))
            => plans'[u].messages_remaining <= plans[u].messages_remaining

C19_ResetOncePerDay == [][C19_Step]_vars

----------------------------------------------------------------------------
(* Properties of a malformed generation result *)

(* The generation result was no JSON text, or JSON that is no list of      *)
(* segments, directly or under "messages".                                 *)
Malformed(c) ==
    \/ chat[c].error = "malformed generation output"
    \/ chat[c].calls.open >= 1 /\ ~chat[c].isList

(* C20: a /chat run whose generation result is malformed ends with the     *)
(* response 500: it never answers 200, never has its session written as    *)
(* completed and never calls the decrement.                                *)
C20_MalformedIs500 ==
    \A c \in CProcs :
        Malformed(c) =>
            /\ chat[c].calls.dec = 0
            /\ chat[c].sessionId \in DOMAIN sessions =>
                    sessions[chat[c].sessionId].status # "completed"
            /\ chat[c].pc = "done" => chat[c].response.status = 500

----------------------------------------------------------------------------
(* Properties of the paid tier after its expiration *)

PaidAllocations ==
    { messagesAllocation(p) : p \in {"pro", "pro_plus", "premium"} }

(* C21: once the expiration of a paid row is in the past, no               *)
(* checkMessageLimit call that starts after that moment resets the         *)
(* remaining of the row to the allocation of a paid tier.                  *)
C21_Step ==
    \A c \in CProcs :
        LET u == chat[c].userId
        IN  (/\ chat[c].pc = "cml_update"
             /\ chat'[c].pc # "cml_update"
             /\ ~chat'[c].limitCheck.error
             /\ u \in DOMAIN plans
             /\ plans[u].expires_at # NoDate
             /\ plans[u].expires_at < chat[c].at)
            => plans'[u].messages_remaining \notin PaidAllocations

C21_NoPaidResetAfterExpiry == [][C21_Step]_vars

----------------------------------------------------------------------------
(* Properties of metering under concurrency *)

(* C22: metering holds under concurrency: every /chat request that answers *)
(* 200 with a generated reply has lowered the remaining of its user by 1   *)
(* (its decrement wrote the value it read minus 1), so that between two    *)
(* refills the replies never outnumber the remaining at the start, under   *)
(* any interleaving of the gate checks and decrements of two requests.     *)
C22_EveryReplyCharged ==
    \A c \in CProcs :
        (/\ chat[c].pc = "done"
         /\ chat[c].response.status = 200
         /\ chat[c].calls.gen = 1)
        => /\ chat[c].calls.decWrites = 1
           /\ chat[c].response.remainingMessages = chat[c].data - 1
           /\ chat[c].response.remainingMessages >= 0

----------------------------------------------------------------------------
(* Properties of the rows of user_plans *)

TierAllocation(planType) ==
    CASE planType = "free" -> 1
      [] planType = "pro" -> 6
      [] planType = "pro_plus" -> 20
      [] planType = "premium" -> 50

(* C23: in every reachable state every row of user_plans has a remaining   *)
(* between 0 and the daily allocation of its current plan, also when the   *)
(* read and the write of a decrement are interleaved with a purchase or    *)
(* with the revert of the expiration sweep.                                *)
C23_WithinAllocation ==
    \A u \in DOMAIN plans :
        /\ plans[u].messages_remaining >= 0
        /\ plans[u].messages_remaining <= TierAllocation(plans[u].plan_type)

----------------------------------------------------------------------------
(* Properties of the audio sessions after their run *)

(* C24: once a /chat run that opened an audio session has ended, the       *)
(* session has left the status "processing", whatever the outcome of the   *)
(* run, also when a write of the final status failed.                      *)
C24_SessionSettled ==
    \A c \in CProcs :
        (/\ chat[c].pc = "done"
         /\ chat[c].sessionId \in DOMAIN sessions)
        => sessions[chat[c].sessionId].status # "processing"

(* C25: no artifact is orphaned: every file of a user namespace whose name *)
(* starts with a session identifier has a session record with that         *)
(* identifier, also after a purge in which a file operation failed.        *)
C25_NoOrphanFile ==
    \A f \in files : \E x \in DOMAIN sessions : StartsWith(f, x)

====
